---- MODULE Spec2Model ----
(***************************************************************************)
(* A model of the route table of ambientkit/away (way.go): registration    *)
(* with re-sort, removal, counting, dispatch and parameter binding.        *)
(*                                                                         *)
(* Go strings are modelled as sequences of one-character strings, so that  *)
(* trimming, splitting, prefix tests, case folding and byte-wise           *)
(* comparison are computed as the code computes them.                      *)
(***************************************************************************)
EXTENDS Integers, Sequences, FiniteSets, TLC

VARIABLES
    routes,      \* Router.routes: the table, a sequence of route records
    panicked,    \* TRUE once a run-time panic has ended the program
    op,          \* the operation that produced this state
    req,         \* the arguments of that operation: [method, path]
    calls,       \* the handlers invoked by the last ServeHTTP, in order
    tried,       \* the table positions on which the last ServeHTTP ran match
    ctx,         \* the context the invoked handler received (binding chain)
    ret,         \* the value returned by the last Count
    cleared,     \* history: the key last removed after being registered once
    legacySort   \* TRUE when the build's sort.Sort is the pre-pdqsort one

vars == <<routes, panicked, op, req, calls, tried, ctx, ret, cleared, legacySort>>

-----------------------------------------------------------------------------
(* Strings *)

UpperLetters == <<"A","B","C","D","E","F","G","H","I","J","K","L","M",
                  "N","O","P","Q","R","S","T","U","V","W","X","Y","Z">>

LowerLetters == <<"a","b","c","d","e","f","g","h","i","j","k","l","m",
                  "n","o","p","q","r","s","t","u","v","w","x","y","z">>

IndexIn(seq, c) == CHOOSE i \in 1..Len(seq) : seq[i] = c

IsUpper(c) == \E i \in 1..Len(UpperLetters) : UpperLetters[i] = c

IsLower(c) == \E i \in 1..Len(LowerLetters) : LowerLetters[i] = c

\* The byte value of a character (the characters the model's inputs use).
Byte(c) ==
    CASE c = "*" -> 42
      [] c = "-" -> 45
      [] c = "." -> 46
      [] c = "/" -> 47
      [] c = ":" -> 58
      [] IsUpper(c) -> 64 + IndexIn(UpperLetters, c)
      [] IsLower(c) -> 96 + IndexIn(LowerLetters, c)

ToLowerChar(c) == IF IsUpper(c) THEN LowerLetters[IndexIn(UpperLetters, c)] ELSE c

\* strings.ToLower
ToLower(s) == [i \in 1..Len(s) |-> ToLowerChar(s[i])]

\* strings.EqualFold
EqualFold(s, t) ==
    /\ Len(s) = Len(t)
    /\ \A i \in 1..Len(s) : ToLowerChar(s[i]) = ToLowerChar(t[i])

\* strings.HasPrefix
HasPrefix(s, prefix) ==
    /\ Len(prefix) <= Len(s)
    /\ SubSeq(s, 1, Len(prefix)) = prefix

\* strings.HasSuffix
HasSuffix(s, suffix) ==
    /\ Len(suffix) <= Len(s)
    /\ SubSeq(s, Len(s) - Len(suffix) + 1, Len(s)) = suffix

\* strings.Contains
Contains(s, substr) ==
    \E i \in 1..(Len(s) - Len(substr) + 1) : SubSeq(s, i, i + Len(substr) - 1) = substr

\* strings.TrimPrefix
TrimPrefix(s, prefix) ==
    IF HasPrefix(s, prefix) THEN SubSeq(s, Len(prefix) + 1, Len(s)) ELSE s

SetMin(S) == CHOOSE x \in S : \A y \in S : x <= y

SetMax(S) == CHOOSE x \in S : \A y \in S : y <= x

\* strings.Trim(s, cut) for a one-character cutset
Trim(s, cut) ==
    LET keep == {i \in 1..Len(s) : s[i] # cut}
    IN  IF keep = {} THEN <<>> ELSE SubSeq(s, SetMin(keep), SetMax(keep))

\* strings.Split(s, sep) for a one-character separator: never empty, the empty
\* string splits into one empty segment.
RECURSIVE Split(_, _)
Split(s, sep) ==
    LET at == {i \in 1..Len(s) : s[i] = sep}
    IN  IF at = {} THEN <<s>>
        ELSE LET k == SetMin(at)
             IN  <<SubSeq(s, 1, k - 1)>> \o Split(SubSeq(s, k + 1, Len(s)), sep)

\* Go's < on strings: byte-wise lexicographic.
StrLess(s, t) ==
    LET n    == IF Len(s) < Len(t) THEN Len(s) ELSE Len(t)
        diff == {i \in 1..n : s[i] # t[i]}
    IN  IF diff = {} THEN Len(s) < Len(t)
        ELSE Byte(s[SetMin(diff)]) < Byte(t[SetMin(diff)])

Slash == <<"/">>

Colon == <<":">>

Dots == <<".", ".", ".">>

Star == <<"*">>

-----------------------------------------------------------------------------
(* The router *)

\* Router.pathSegments
pathSegments(p) == Split(Trim(p, "/"), "/")

\* A route built without lower-casing the method.
NewRouteKeepsCase(method, pattern, handler) ==
    [pattern |-> pattern,
     method  |-> method,
     segs    |-> pathSegments(pattern),
     handler |-> handler,
     prefix  |-> HasSuffix(pattern, Slash) \/ HasSuffix(pattern, Dots)]

\* The route built by Router.Handle.
NewRoute(method, pattern, handler) ==
    [pattern |-> pattern,
     method  |-> ToLower(method),
     segs    |-> pathSegments(pattern),
     handler |-> handler,
     prefix  |-> HasSuffix(pattern, Slash) \/ HasSuffix(pattern, Dots)]

\* A comparator that only compares alphabetically.
PatternLessAlphabetical(si, sj) ==
    IF ToLower(si) = ToLower(sj) THEN StrLess(si, sj)
    ELSE StrLess(ToLower(si), ToLower(sj))

\* routeList.Less on patterns.
PatternLess(si, sj) ==
    LET siLower == ToLower(si)
        sjLower == ToLower(sj)
    IN  IF HasPrefix(sjLower, <<"/", ":">>) THEN TRUE
        ELSE IF HasPrefix(siLower, <<"/", ":">>) THEN FALSE
        ELSE IF Contains(sjLower, Colon) /\ ~Contains(siLower, Colon) THEN TRUE
        ELSE IF ~Contains(sjLower, Colon) /\ Contains(siLower, Colon) THEN FALSE
        ELSE IF siLower = sjLower THEN StrLess(si, sj)
        ELSE StrLess(siLower, sjLower)

\* routeList.Less
Less(s, i, j) == PatternLess(s[i].pattern, s[j].pattern)

\* routeList.Swap
Swap(s, i, j) == [s EXCEPT ![i] = s[j], ![j] = s[i]]

\* The inner loop of sort's insertionSort:
\*   for j := i; j > a && data.Less(j, j-1); j-- { data.Swap(j, j-1) }
RECURSIVE insertionInner(_, _)
insertionInner(s, j) ==
    IF j > 1 /\ Less(s, j, j - 1)
    THEN insertionInner(Swap(s, j, j - 1), j - 1)
    ELSE s

\* sort's insertionSort: for i := a + 1; i < b; i++ { ... }
RECURSIVE insertionSort(_, _)
insertionSort(s, i) ==
    IF i > Len(s) THEN s ELSE insertionSort(insertionInner(s, i), i + 1)

\* The gap of the ShellSort pass the older sort.Sort runs before insertionSort.
ShellGap == 6

\* for i := a + 6; i < b; i++ { if data.Less(i, i-6) { data.Swap(i, i-6) } }
RECURSIVE shellPass(_, _)
shellPass(s, i) ==
    IF i > Len(s) THEN s
    ELSE shellPass(IF Less(s, i, i - ShellGap) THEN Swap(s, i, i - ShellGap) ELSE s, i + 1)

\* Up to this length sort.Sort is an insertion sort (preceded, in the older
\* implementation, by one ShellSort pass).
MaxInsertion == 12

\* sort.Sort(r.routes) for tables of at most MaxInsertion entries.
SortRoutes(s, legacy) ==
    IF legacy /\ Len(s) > 1
    THEN insertionSort(shellPass(s, ShellGap + 1), 2)
    ELSE insertionSort(s, 2)

\* Router.Handle: append, then sort.
HandleRoutes(s, method, pattern, handler, legacy) ==
    SortRoutes(Append(s, NewRoute(method, pattern, handler)), legacy)

\* The condition of Router.Remove's loop body.
RemoveMatches(v, method, p) == v.pattern = p /\ EqualFold(v.method, method)

\* A removeIndex that starts the move one slot too far and so drops the entry
\* after the one named.
removeIndexNext(arr, len, index) ==
    [k \in 1..Len(arr) |-> IF k > index /\ k < len THEN arr[k + 1] ELSE arr[k]]

\* removeIndex on the table's backing array: append(s[:index], s[index+1:]...)
\* moves the tail one slot down in place and leaves the last slot as it was.
\* `index` is the 1-based position, `len` the current length of r.routes.
removeIndex(arr, len, index) ==
    [k \in 1..Len(arr) |-> IF k >= index /\ k < len THEN arr[k + 1] ELSE arr[k]]

\* Router.Remove's loop: range walks the positions of the slice as it was when
\* the loop began and reads each element from the shared backing array at the
\* time it is visited. s[index+1:] panics when index+1 exceeds the current
\* length.
RECURSIVE RemoveLoop(_, _, _, _, _)
RemoveLoop(arr, len, index, method, p) ==
    IF index > Len(arr) THEN [routes |-> SubSeq(arr, 1, len), panic |-> FALSE]
    ELSE IF RemoveMatches(arr[index], method, p)
         THEN IF index > len
              THEN [routes |-> SubSeq(arr, 1, len), panic |-> TRUE]
              ELSE RemoveLoop(removeIndex(arr, len, index), len - 1, index + 1, method, p)
         ELSE RemoveLoop(arr, len, index + 1, method, p)

\* Router.Remove
RemoveRoutes(s, method, p) == RemoveLoop(s, Len(s), 1, method, p)

\* Router.Count
Count(s) == Len(s)

\* req.Context() of a fresh request: no bindings.
Background == <<>>

NoMatch == [ok |-> FALSE, ctx |-> Background]

\* A walk that accepts when the request runs out of segments.
RECURSIVE matchWalkShort(_, _, _, _)
matchWalkShort(r, segs, i, c) ==
    IF i > Len(r.segs) \/ i > Len(segs) THEN [ok |-> TRUE, ctx |-> c]
    ELSE IF HasPrefix(r.segs[i], Colon)
         THEN matchWalkShort(r, segs, i + 1, Append(c, <<TrimPrefix(r.segs[i], Colon), segs[i]>>))
         ELSE IF HasSuffix(r.segs[i], Dots)
                 /\ HasPrefix(segs[i], SubSeq(r.segs[i], 1, Len(r.segs[i]) - 3))
              THEN [ok |-> TRUE, ctx |-> c]
              ELSE IF r.segs[i] # segs[i] THEN NoMatch
              ELSE matchWalkShort(r, segs, i + 1, c)

\* A walk in which a prefix-literal segment only tests its own request segment
\* and the walk goes on to the next segment.
RECURSIVE matchWalkNoStop(_, _, _, _)
matchWalkNoStop(r, segs, i, c) ==
    IF i > Len(r.segs) THEN [ok |-> TRUE, ctx |-> c]
    ELSE IF i > Len(segs) THEN NoMatch
    ELSE IF HasPrefix(r.segs[i], Colon)
         THEN matchWalkNoStop(r, segs, i + 1, Append(c, <<TrimPrefix(r.segs[i], Colon), segs[i]>>))
         ELSE IF HasSuffix(r.segs[i], Dots)
                 /\ HasPrefix(segs[i], SubSeq(r.segs[i], 1, Len(r.segs[i]) - 3))
              THEN matchWalkNoStop(r, segs, i + 1, c)
              ELSE IF r.segs[i] # segs[i] THEN NoMatch
              ELSE matchWalkNoStop(r, segs, i + 1, c)

\* The loop of route.match. A context is the chain of (name, value) pairs
\* context.WithValue built, innermost last.
RECURSIVE matchWalk(_, _, _, _)
matchWalk(r, segs, i, c) ==
    IF i > Len(r.segs) THEN [ok |-> TRUE, ctx |-> c]
    ELSE IF i > Len(segs) THEN NoMatch
    ELSE LET isParam == HasPrefix(r.segs[i], Colon)
             seg     == IF isParam THEN TrimPrefix(r.segs[i], Colon) ELSE r.segs[i]
         IN  IF ~isParam
             THEN IF HasSuffix(seg, Dots)
                     /\ HasPrefix(segs[i], SubSeq(seg, 1, Len(seg) - 3))
                  THEN [ok |-> TRUE, ctx |-> c]
                  ELSE IF seg # segs[i] THEN NoMatch
                  ELSE matchWalk(r, segs, i + 1, c)
             ELSE matchWalk(r, segs, i + 1, Append(c, <<seg, segs[i]>>))

\* A match without the length test before the walk.
matchNoLengthTest(r, segs) == matchWalk(r, segs, 1, Background)

\* route.match
match(r, segs) ==
    IF Len(segs) > Len(r.segs) /\ ~r.prefix THEN NoMatch
    ELSE matchWalk(r, segs, 1, Background)

\* Param: the innermost value bound to the name, or the empty string.
Param(c, param) ==
    LET at == {i \in 1..Len(c) : c[i][1] = param}
    IN  IF at = {} THEN <<>> ELSE c[SetMax(at)][2]

\* The handler Router.NotFound holds.
NotFound == "NotFound"

\* The method test of Router.ServeHTTP's loop: TRUE when the route is skipped.
MethodSkips(route, method) == route.method # method /\ route.method # Star

\* The bindings the walk of route.match records, kept also when the route is
\* rejected.
RECURSIVE walkBindings(_, _, _, _)
walkBindings(r, segs, i, c) ==
    IF i > Len(r.segs) \/ i > Len(segs) THEN c
    ELSE IF HasPrefix(r.segs[i], Colon)
         THEN walkBindings(r, segs, i + 1, Append(c, <<TrimPrefix(r.segs[i], Colon), segs[i]>>))
         ELSE IF r.segs[i] # segs[i] THEN c
         ELSE walkBindings(r, segs, i + 1, c)

\* A dispatch loop that carries one context from route to route, so that the
\* bindings of a rejected route stay in it.
RECURSIVE ServeLoopSharedCtx(_, _, _, _, _)
ServeLoopSharedCtx(s, i, method, segs, out) ==
    IF i > Len(s)
    THEN [out EXCEPT !.calls = Append(out.calls, "NotFound"), !.ctx = <<>>]
    ELSE IF s[i].method # method /\ s[i].method # Star
         THEN ServeLoopSharedCtx(s, i + 1, method, segs, out)
         ELSE LET m == match(s[i], segs)
                  t == [out EXCEPT !.tried = Append(out.tried, i)]
              IN  IF m.ok
                  THEN [t EXCEPT !.calls = Append(t.calls, s[i].handler),
                                 !.ctx = out.ctx \o m.ctx]
                  ELSE ServeLoopSharedCtx(s, i + 1, method, segs,
                          [t EXCEPT !.ctx = walkBindings(s[i], segs, 1, out.ctx)])

\* A dispatch loop that does not return after invoking a handler.
RECURSIVE ServeLoopNoReturn(_, _, _, _, _)
ServeLoopNoReturn(s, i, method, segs, out) ==
    IF i > Len(s)
    THEN [out EXCEPT !.calls = Append(out.calls, "NotFound")]
    ELSE IF s[i].method # method /\ s[i].method # Star
         THEN ServeLoopNoReturn(s, i + 1, method, segs, out)
         ELSE LET m == match(s[i], segs)
                  t == [out EXCEPT !.tried = Append(out.tried, i)]
              IN  IF m.ok
                  THEN ServeLoopNoReturn(s, i + 1, method, segs,
                          [t EXCEPT !.calls = Append(t.calls, s[i].handler), !.ctx = m.ctx])
                  ELSE ServeLoopNoReturn(s, i + 1, method, segs, t)

\* The loop of Router.ServeHTTP from table position i on; out collects the
\* handlers invoked, the positions match ran on and the context handed over.
RECURSIVE ServeLoop(_, _, _, _, _)
ServeLoop(s, i, method, segs, out) ==
    IF i > Len(s)
    THEN [out EXCEPT !.calls = Append(out.calls, NotFound)]
    ELSE IF MethodSkips(s[i], method)
         THEN ServeLoop(s, i + 1, method, segs, out)
         ELSE LET m == match(s[i], segs)
                  t == [out EXCEPT !.tried = Append(out.tried, i)]
              IN  IF m.ok
                  THEN [t EXCEPT !.calls = Append(t.calls, s[i].handler), !.ctx = m.ctx]
                  ELSE ServeLoop(s, i + 1, method, segs, t)

\* Router.ServeHTTP
Serve(s, method, path) ==
    ServeLoop(s, 1, ToLower(method), pathSegments(path),
              [calls |-> <<>>, tried |-> <<>>, ctx |-> Background])

-----------------------------------------------------------------------------
(* The operations, as actions *)

GET == <<"G", "E", "T">>

get == <<"g", "e", "t">>

POST == <<"P", "O", "S", "T">>

NoReq == [method |-> <<>>, path |-> <<>>]

NoKey == [method |-> <<>>, pattern |-> <<>>]

\* The largest table the specifications below build.
MaxRoutes == 3

\* NewRouter: an empty table.
Init ==
    /\ routes = <<>>
    /\ panicked = FALSE
    /\ op = "NewRouter"
    /\ req = NoReq
    /\ calls = <<>>
    /\ tried = <<>>
    /\ ctx = Background
    /\ ret = 0
    /\ cleared = NoKey
    /\ legacySort = FALSE

\* Router.Handle(method, pattern, handler)
Handle(method, pattern, handler) ==
    /\ ~panicked
    /\ routes' = HandleRoutes(routes, method, pattern, handler, legacySort)
    /\ op' = "Handle"
    /\ req' = [method |-> method, path |-> pattern]
    /\ calls' = <<>>
    /\ tried' = <<>>
    /\ ctx' = Background
    /\ ret' = 0
    /\ UNCHANGED <<panicked, legacySort>>

\* Router.Remove(method, p)
Remove(method, p) ==
    /\ ~panicked
    /\ LET r == RemoveRoutes(routes, method, p)
       IN  /\ routes' = r.routes
           /\ panicked' = r.panic
    /\ op' = "Remove"
    /\ req' = [method |-> method, path |-> p]
    /\ calls' = <<>>
    /\ tried' = <<>>
    /\ ctx' = Background
    /\ ret' = 0
    /\ UNCHANGED legacySort

\* Router.Count()
CountRoutes ==
    /\ ~panicked
    /\ ret' = Count(routes)
    /\ op' = "Count"
    /\ req' = NoReq
    /\ calls' = <<>>
    /\ tried' = <<>>
    /\ ctx' = Background
    /\ UNCHANGED <<routes, panicked, legacySort>>

\* Router.ServeHTTP(w, req)
ServeHTTP(method, path) ==
    /\ ~panicked
    /\ LET out == Serve(routes, method, path)
       IN  /\ calls' = out.calls
           /\ tried' = out.tried
           /\ ctx' = out.ctx
    /\ op' = "ServeHTTP"
    /\ req' = [method |-> method, path |-> path]
    /\ ret' = 0
    /\ UNCHANGED <<routes, panicked, legacySort>>

-----------------------------------------------------------------------------
(* Spec: the whole router over a small alphabet of keys and requests *)

Methods == {GET, get, Star}

ReqMethods == {GET, POST}

Handlers == {"h1"}

\*   /a/b   /a/:x   /:x
Patterns ==
    { <<"/", "a", "/", "b">>,
      <<"/", "a", "/", ":", "x">>,
      <<"/", ":", "x">> }

\*   /a/b   /a/:x   /:x   /v
Paths == Patterns \cup { <<"/", "v">> }

\* The entries of table s a Remove(method, p) is meant to delete.
Matching(s, method, p) == {i \in 1..Len(s) : s[i].pattern = p /\ EqualFold(s[i].method, method)}

\* History for "registered once, then removed": the key of the last Remove
\* that found exactly one entry, forgotten when the key is registered again.
ClearedByRemove(method, p) ==
    IF Cardinality(Matching(routes, method, p)) = 1
    THEN [method |-> ToLower(method), pattern |-> p]
    ELSE cleared

ClearedByHandle(method, pattern) ==
    IF cleared = [method |-> ToLower(method), pattern |-> pattern] THEN NoKey ELSE cleared

Next ==
    \/ \E method \in Methods, pattern \in Patterns, handler \in Handlers :
          /\ Len(routes) < MaxRoutes
          /\ Handle(method, pattern, handler)
          /\ cleared' = ClearedByHandle(method, pattern)
    \/ \E method \in Methods, p \in Patterns :
          /\ Remove(method, p)
          /\ cleared' = ClearedByRemove(method, p)
    \/ CountRoutes /\ UNCHANGED cleared
    \/ \E method \in ReqMethods, path \in Paths :
          ServeHTTP(method, path) /\ UNCHANGED cleared

Spec == Init /\ [][Next]_vars

-----------------------------------------------------------------------------
(* Claims checked under Spec *)

\* The table s without the entries Remove(method, p) is meant to delete.
Without(s, method, p) ==
    SelectSeq(s, LAMBDA v : ~(v.pattern = p /\ EqualFold(v.method, method)))

\* C1: Remove(method, pattern) removes exactly the matching entries: after a
\* Remove that returned, the table is the table before it without the entries
\* whose pattern equals the key and whose method equals it ignoring case, and
\* Count has decreased by the number of entries that matched.
C1_RemoveExact ==
    [][(op' = "Remove" /\ ~panicked') =>
          /\ Matching(routes', req'.method, req'.path) = {}
          /\ routes' = Without(routes, req'.method, req'.path)
          /\ Count(routes') =
                Count(routes) - Cardinality(Matching(routes, req'.method, req'.path))]_vars

\* The route whose handler the last ServeHTTP invoked.
InvokedRoute == routes[tried[Len(tried)]]

\* Some route of table s accepts the request: its method is * or the request's
\* method ignoring case, and its segments match the request's.
AnyRouteMatches(s, method, path) ==
    \E i \in 1..Len(s) :
        /\ s[i].method = Star \/ EqualFold(s[i].method, method)
        /\ match(s[i], pathSegments(path)).ok

\* The last operation dispatched the method and path of the cleared key.
DispatchOfCleared ==
    /\ op = "ServeHTTP"
    /\ cleared # NoKey
    /\ ToLower(req.method) = cleared.method
    /\ req.path = cleared.pattern

\* C3 as stated: once a pair registered once is removed, a dispatch of that
\* method to that path invokes the not-found handler, whatever else is in the
\* table.
C3_ClearedFallsThrough == DispatchOfCleared => calls = <<NotFound>>

\* C3, amended: once a pair registered once is removed and until it is
\* registered again, the table holds no entry with that key, a dispatch of that
\* method to that path invokes exactly one handler, never that of an entry with
\* the removed key, and it invokes the not-found handler exactly when no route
\* left in the table accepts the request.
C3_ClearedNeverServed ==
    DispatchOfCleared =>
        /\ Matching(routes, cleared.method, cleared.pattern) = {}
        /\ Len(calls) = 1
        /\ (calls = <<NotFound>>) <=> ~AnyRouteMatches(routes, req.method, req.path)
        /\ calls # <<NotFound>> =>
              ~(InvokedRoute.method = cleared.method /\ InvokedRoute.pattern = cleared.pattern)

\* A dispatch of a cleared key fell through to not-found while other routes
\* were in the table.
C3_Witness == DispatchOfCleared /\ Len(routes) > 0 /\ calls = <<NotFound>>

\* C9: after any sequence of register and remove operations the table order is
\* consistent with the comparator, and the comparator is a strict order on the
\* registered patterns: no route is placed before an earlier one, and no two
\* routes (nor a route and itself) are each placed before the other.
C9_OrderConsistent ==
    (op \in {"Handle", "Remove"} /\ ~panicked) =>
        /\ \A i, j \in 1..Len(routes) : i < j => ~Less(routes, j, i)
        /\ \A i, j \in 1..Len(routes) : ~(Less(routes, i, j) /\ Less(routes, j, i))

\* C12: Remove never fails at run time: on every reachable table and for every
\* key, also one that matches several entries or the last entry, the loop
\* stays within the bounds of the route sequence and Remove returns normally.
C12_RemoveReturns == op = "Remove" => ~panicked

-----------------------------------------------------------------------------
(* SpecMethods: registration and dispatch under every method spelling, over
   two overlapping patterns *)

AllMethods == {GET, get, POST, Star}

AllReqMethods == {GET, get, POST}

TwoHandlers == {"h1", "h2"}

\*   /a/b   /a/:x
MethodPatterns == { <<"/", "a", "/", "b">>, <<"/", "a", "/", ":", "x">> }

\*   /a/b   /a/v
MethodPaths == { <<"/", "a", "/", "b">>, <<"/", "a", "/", "v">> }

NextMethods ==
    \/ \E method \in AllMethods, pattern \in MethodPatterns, handler \in TwoHandlers :
          /\ Len(routes) < MaxRoutes
          /\ Handle(method, pattern, handler)
          /\ UNCHANGED cleared
    \/ \E method \in AllReqMethods, path \in MethodPaths :
          ServeHTTP(method, path) /\ UNCHANGED cleared

SpecMethods == Init /\ [][NextMethods]_vars

\* The route's registered method admits the request's: it is * or equals it
\* ignoring case.
MethodAdmits(route, method) == route.method = Star \/ EqualFold(route.method, method)

\* The table positions the last ServeHTTP looked at: up to the route it
\* invoked, or the whole table when it invoked the not-found handler.
Scanned == IF calls = <<NotFound>> THEN 1..Len(routes) ELSE 1..tried[Len(tried)]

\* C4: method matching is case-insensitive on both sides and * is a wildcard.
\* Registration keeps the method up to case (and * as *); among the routes a
\* dispatch looks at, match runs on exactly those whose method is * or equals
\* the request's ignoring case; the route invoked is one of them.
C4_MethodMatching ==
    /\ op = "Handle" =>
          \E i \in 1..Len(routes) :
              /\ routes[i].pattern = req.path
              /\ EqualFold(routes[i].method, req.method)
              /\ (routes[i].method = Star) <=> (req.method = Star)
    /\ op = "ServeHTTP" =>
          /\ \A i \in Scanned :
                (\E k \in 1..Len(tried) : tried[k] = i) <=> MethodAdmits(routes[i], req.method)
          /\ calls # <<NotFound>> =>
                /\ calls = <<InvokedRoute.handler>>
                /\ MethodAdmits(InvokedRoute, req.method)

\* A GET request was served by a route registered under get although a route
\* with the same pattern under POST stands earlier in the table.
C4_Witness ==
    /\ op = "ServeHTTP"
    /\ req.method = GET
    /\ calls # <<NotFound>>
    /\ InvokedRoute.method = get
    /\ \E i \in 1..Len(routes) :
          /\ i < tried[Len(tried)]
          /\ routes[i].pattern = InvokedRoute.pattern
          /\ routes[i].method = ToLower(POST)

\* The table positions whose route accepts the request.
Accepting(s, method, path) ==
    {i \in 1..Len(s) : MethodAdmits(s[i], method) /\ match(s[i], pathSegments(path)).ok}

\* C2: every dispatch invokes exactly one callback exactly once: the handler of
\* the first route in table order whose method and segments match the request,
\* or the not-found handler when no route matches.
C2_ExactlyOneHandler ==
    op = "ServeHTTP" =>
        LET acc == Accepting(routes, req.method, req.path)
        IN  calls = IF acc = {} THEN <<NotFound>> ELSE <<routes[SetMin(acc)].handler>>

\* A request that two routes with different handlers accept went to the first
\* of them, past an earlier route of another method.
C2_Witness ==
    /\ op = "ServeHTTP"
    /\ \E i, j \in Accepting(routes, req.method, req.path) :
          /\ i < j
          /\ routes[i].handler # routes[j].handler
          /\ calls = <<routes[i].handler>>
          /\ \E k \in 1..(i - 1) : ~MethodAdmits(routes[k], req.method)

-----------------------------------------------------------------------------
(* SpecServe: dispatch over overlapping literal, prefix and parameter routes *)

\*   /a/   /a/b   /a/:x   /:x   /:y/:y   /a.../:x
ServePatterns ==
    { <<"/", "a", "/">>,
      <<"/", "a", "/", "b">>,
      <<"/", "a", "/", ":", "x">>,
      <<"/", ":", "x">>,
      <<"/", ":", "y", "/", ":", "y">>,
      <<"/", "a", ".", ".", ".", "/", ":", "x">> }

\*   /a/b   a/b/   /a   /v   /v/w   /ab/c
ServePaths ==
    { <<"/", "a", "/", "b">>,
      <<"a", "/", "b", "/">>,
      <<"/", "a">>,
      <<"/", "v">>,
      <<"/", "v", "/", "w">>,
      <<"/", "a", "b", "/", "c">> }

\* The requests: every path under GET, one under POST.
ServeRequests ==
    {<<GET, path>> : path \in ServePaths} \cup {<<POST, <<"/", "a", "/", "b">>>>}

\* The parameter names handlers ask Param for.
Names == {<<"x">>, <<"y">>, <<"z">>}

NextServe ==
    \/ \E pattern \in ServePatterns, handler \in TwoHandlers :
          /\ Len(routes) < MaxRoutes
          /\ Handle(GET, pattern, handler)
          /\ UNCHANGED cleared
    \/ \E r \in ServeRequests :
          ServeHTTP(r[1], r[2]) /\ UNCHANGED cleared

SpecServe == Init /\ [][NextServe]_vars

\* The positions of the parameter segments :name of route r.
ParamSegs(r, name) == {i \in 1..Len(r.segs) : r.segs[i] = Colon \o name}

\* C5 as stated: the handler sees exactly the bindings of the winning route:
\* for each parameter segment :name of that route at index i, Param(name) is
\* the request segment at index i, and Param is empty for every other name
\* (also in the not-found handler).
C5_BindingsOfWinner ==
    op = "ServeHTTP" =>
        LET segs == pathSegments(req.path)
        IN  \A name \in Names :
                IF calls = <<NotFound>> \/ ParamSegs(InvokedRoute, name) = {}
                THEN Param(ctx, name) = <<>>
                ELSE \A i \in ParamSegs(InvokedRoute, name) :
                        i <= Len(segs) /\ Param(ctx, name) = segs[i]

\* The segments of a matching route r the walk went through: all of them, or
\* those before its first prefix-literal segment, which ends the walk.
Walked(r) ==
    LET stops == {i \in 1..Len(r.segs) :
                     ~HasPrefix(r.segs[i], Colon) /\ HasSuffix(r.segs[i], Dots)}
    IN  IF stops = {} THEN 1..Len(r.segs) ELSE 1..(SetMin(stops) - 1)

\* C5, amended: the handler sees exactly the bindings the walk of the winning
\* route recorded: Param(name) is the request segment at the index of the last
\* parameter segment :name the walk went through (a prefix-literal segment
\* ends the walk, and the parameters after it stay unbound), and empty when
\* there is none; nothing recorded for a rejected route is visible.
C5_BindingsOfWalk ==
    op = "ServeHTTP" =>
        LET segs == pathSegments(req.path)
        IN  \A name \in Names :
                IF calls = <<NotFound>>
                THEN Param(ctx, name) = <<>>
                ELSE LET at == ParamSegs(InvokedRoute, name) \cap Walked(InvokedRoute)
                     IN  Param(ctx, name) = IF at = {} THEN <<>> ELSE segs[SetMax(at)]

\* The route invoked bound x after an earlier route had bound y to the same
\* segment and was rejected; the handler sees x and no y.
C5_Witness ==
    /\ op = "ServeHTTP"
    /\ calls # <<NotFound>>
    /\ Len(tried) >= 2
    /\ ParamSegs(routes[tried[1]], <<"y">>) # {}
    /\ ParamSegs(InvokedRoute, <<"x">>) # {}
    /\ Param(ctx, <<"x">>) = <<"v">>
    /\ Param(ctx, <<"y">>) = <<>>

\* Route r is literal and equals the request segment for segment.
ExactLiteral(r, segs) ==
    /\ r.segs = segs
    /\ \A i \in 1..Len(r.segs) : ~HasPrefix(r.segs[i], Colon)

\* C10: whenever a request matches two routes of the same method, one literal
\* and equal to the request segment for segment, the other matching only as a
\* prefix route or through a parameter, the exact literal route is earlier in
\* the table and an exact literal route is the one invoked.
C10_SpecificFirst ==
    op = "ServeHTTP" =>
        LET segs == pathSegments(req.path)
        IN  \A i, j \in Accepting(routes, req.method, req.path) :
                (/\ routes[i].method = routes[j].method
                 /\ ExactLiteral(routes[i], segs)
                 /\ ~ExactLiteral(routes[j], segs))
                => /\ i < j
                   /\ calls # <<NotFound>>
                   /\ ExactLiteral(InvokedRoute, segs)

\* The orders in which n registrations can be made.
Orders(n) == {f \in [1..n -> 1..n] : \A i, j \in 1..n : i # j => f[i] # f[j]}

\* The table a new router holds after registering the entries of rs in the
\* order f, from the i-th registration on, s being the table so far.
RECURSIVE RegisterIn(_, _, _, _)
RegisterIn(rs, f, i, s) ==
    IF i > Len(rs) THEN s
    ELSE RegisterIn(rs, f, i + 1,
            HandleRoutes(s, rs[f[i]].method, rs[f[i]].pattern, rs[f[i]].handler, legacySort))

\* C11: which handler is chosen does not depend on the order of registration:
\* the table holds the triples registered so far, and registering the same
\* triples in any other order gives a table in which the request dispatched
\* invokes the same handler.
C11_OrderIndependent ==
    op = "ServeHTTP" =>
        \A f \in Orders(Len(routes)) :
            Serve(RegisterIn(routes, f, 1, <<>>), req.method, req.path).calls = calls


-----------------------------------------------------------------------------
(* SpecWay: one route, one request, over generated patterns and paths *)

\* The most segments a generated pattern or path has.
MaxSegs == 3

\* Pattern segments:  a   b   :x   a...
PatternSegs == { <<"a">>, <<"b">>, <<":", "x">>, <<"a", ".", ".", ".">> }

\* Path segments:  a   ab   b
PathSegs == { <<"a">>, <<"a", "b">>, <<"b">> }

\* The sequences of 1..n elements of S.
SeqsUpTo(S, n) == UNION {[1..k -> S] : k \in 1..n}

\* /s1/s2/.../sn
RECURSIVE JoinSegs(_)
JoinSegs(l) == IF l = <<>> THEN <<>> ELSE Slash \o Head(l) \o JoinSegs(Tail(l))

\* Patterns written by hand:  /   (empty)   a/b   /a//b   /...   /a.../
ExtraPatterns ==
    { <<"/">>,
      <<>>,
      <<"a", "/", "b">>,
      <<"/", "a", "/", "/", "b">>,
      <<"/", ".", ".", ".">>,
      <<"/", "a", ".", ".", ".", "/">> }

\* Every /s1/.../sn, with and without a trailing slash, and the extra ones.
WayPatterns ==
    LET joined == {JoinSegs(l) : l \in SeqsUpTo(PatternSegs, MaxSegs)}
    IN  joined \cup {p \o Slash : p \in joined} \cup ExtraPatterns

\* Paths written by hand:  /   (empty)   a/b/   /a//b   /a...
ExtraPaths ==
    { <<"/">>,
      <<>>,
      <<"a", "/", "b", "/">>,
      <<"/", "a", "/", "/", "b">>,
      <<"/", "a", ".", ".", ".">> }

WayPaths == {JoinSegs(l) : l \in SeqsUpTo(PathSegs, MaxSegs)} \cup ExtraPaths

\* As TestWay does: a new router, one Handle, one request.
NextWay ==
    \/ \E pattern \in WayPatterns :
          /\ routes = <<>>
          /\ Handle(GET, pattern, "h1")
          /\ UNCHANGED cleared
    \/ \E path \in WayPaths :
          /\ op = "Handle"
          /\ ServeHTTP(GET, path)
          /\ UNCHANGED cleared

SpecWay == Init /\ [][NextWay]_vars

\* Route r has no parameter segment.
NoParams(r) == \A i \in 1..Len(r.segs) : ~HasPrefix(r.segs[i], Colon)

\* Segment i of route r is a prefix-literal: a literal ending in "...".
PrefixLiteral(r, i) == ~HasPrefix(r.segs[i], Colon) /\ HasSuffix(r.segs[i], Dots)

\* The request segments extend the pattern's: they start with them, the last
\* pattern segment, when it ends in "...", standing for its stem.
Extends(segs, psegs) ==
    LET n == Len(psegs)
    IN  /\ Len(segs) >= n
        /\ \A i \in 1..(n - 1) : segs[i] = psegs[i]
        /\ IF HasSuffix(psegs[n], Dots)
           THEN HasPrefix(segs[n], SubSeq(psegs[n], 1, Len(psegs[n]) - 3))
           ELSE segs[n] = psegs[n]

\* The single route matched the request: its handler was the one invoked.
Matched == calls = <<routes[1].handler>>

\* C6 as stated: a pattern without parameter segments matches a path exactly
\* when the trimmed segment sequences are equal, or the pattern is a prefix
\* route and the path extends it.
C6_LiteralMatch ==
    (op = "ServeHTTP" /\ NoParams(routes[1])) =>
        LET r    == routes[1]
            segs == pathSegments(req.path)
        IN  Matched <=> (segs = r.segs \/ (r.prefix /\ Extends(segs, r.segs)))

\* C6, amended: the same, for the patterns without parameter segments whose
\* prefix-literal segments, if any, come last (a prefix-literal segment before
\* the last one accepts paths that neither equal nor extend the pattern).
C6_LiteralMatchDotsLast ==
    (/\ op = "ServeHTTP"
     /\ NoParams(routes[1])
     /\ \A i \in 1..(Len(routes[1].segs) - 1) : ~PrefixLiteral(routes[1], i)) =>
        LET r    == routes[1]
            segs == pathSegments(req.path)
        IN  Matched <=> (segs = r.segs \/ (r.prefix /\ Extends(segs, r.segs)))

\* A prefix route without parameters matched a path longer than its pattern.
C6_Witness ==
    /\ op = "ServeHTTP"
    /\ NoParams(routes[1])
    /\ \A i \in 1..(Len(routes[1].segs) - 1) : ~PrefixLiteral(routes[1], i)
    /\ routes[1].prefix
    /\ Len(pathSegments(req.path)) > Len(routes[1].segs)
    /\ Matched

\* C7 as stated: a non-prefix pattern never matches a request with fewer
\* segments than it has, nor one with more.
C7_SegmentCount ==
    (/\ op = "ServeHTTP"
     /\ ~routes[1].prefix
     /\ Len(pathSegments(req.path)) # Len(routes[1].segs)) => ~Matched

\* C7, amended: a non-prefix pattern never matches a request with more
\* segments than it has; it never matches one with fewer unless one of the
\* pattern's segments that the request reaches is a prefix-literal.
C7_SegmentCountNoDots ==
    (op = "ServeHTTP" /\ ~routes[1].prefix) =>
        LET r == routes[1]
            n == Len(pathSegments(req.path))
        IN  /\ n > Len(r.segs) => ~Matched
            /\ (n < Len(r.segs) /\ \A i \in 1..n : ~PrefixLiteral(r, i)) => ~Matched

\* Requests with fewer and with more segments than a non-prefix pattern with a
\* parameter were both rejected.
C7_Witness ==
    /\ op = "ServeHTTP"
    /\ ~routes[1].prefix
    /\ ~NoParams(routes[1])
    /\ Len(pathSegments(req.path)) < Len(routes[1].segs)
    /\ HasPrefix(routes[1].segs[1], Colon) \/ routes[1].segs[1] = pathSegments(req.path)[1]
    /\ ~Matched

\* The stem of a prefix-literal segment: the segment without its "...".
Stem(seg) == SubSeq(seg, 1, Len(seg) - 3)

\* The walk of route r over the request segments reaches the prefix-literal
\* segment k with every earlier pattern segment satisfied, and the request
\* segment at k starts with the stem.
StemReached(r, segs, k) ==
    /\ k <= Len(segs)
    /\ PrefixLiteral(r, k)
    /\ HasPrefix(segs[k], Stem(r.segs[k]))
    /\ \A i \in 1..(k - 1) : HasPrefix(r.segs[i], Colon) \/ r.segs[i] = segs[i]

\* C13 as stated: whenever the walk would reach a prefix-literal segment with
\* all earlier pattern segments satisfied and the request segment there starts
\* with the stem, the route matches, whatever pattern segments remain and
\* however many request segments follow, wherever in the pattern the
\* prefix-literal segment is.
C13_StemAccepts ==
    op = "ServeHTTP" =>
        LET r    == routes[1]
            segs == pathSegments(req.path)
        IN  (\E k \in 1..Len(r.segs) : StemReached(r, segs, k)) => Matched

\* C13, amended: the same, provided the request has no more segments than the
\* pattern or the pattern is a prefix route (it ends in "/" or in "..."):
\* otherwise the route is rejected before the walk begins.
C13_StemAcceptsWithinLength ==
    op = "ServeHTTP" =>
        LET r    == routes[1]
            segs == pathSegments(req.path)
        IN  (/\ Len(segs) <= Len(r.segs) \/ r.prefix
             /\ \E k \in 1..Len(r.segs) : StemReached(r, segs, k)) => Matched

\* A prefix route matched at a prefix-literal segment that is not its last,
\* although the next request segment differs from the next pattern segment and
\* the request has more segments than the pattern.
C13_Witness ==
    /\ op = "ServeHTTP"
    /\ routes[1].prefix
    /\ Len(pathSegments(req.path)) > Len(routes[1].segs)
    /\ \E k \in 1..(Len(routes[1].segs) - 1) :
          /\ StemReached(routes[1], pathSegments(req.path), k)
          /\ ~HasPrefix(routes[1].segs[k + 1], Colon)
          /\ ~PrefixLiteral(routes[1], k + 1)
          /\ routes[1].segs[k + 1] # pathSegments(req.path)[k + 1]
    /\ Matched


-----------------------------------------------------------------------------
(* SpecAway: registration only, over the patterns of TestAway *)

SlugRoute == <<"/", ":", "s", "l", "u", "g">>

RootRoute == <<"/">>

\*   /:slug  /  /cool  /cool/balloon  /cool/:slug  /cool/another  /rss/:ok  /rss.xml
AwayPatterns ==
    { SlugRoute,
      RootRoute,
      <<"/", "c", "o", "o", "l">>,
      <<"/", "c", "o", "o", "l", "/", "b", "a", "l", "l", "o", "o", "n">>,
      <<"/", "c", "o", "o", "l", "/", ":", "s", "l", "u", "g">>,
      <<"/", "c", "o", "o", "l", "/", "a", "n", "o", "t", "h", "e", "r">>,
      <<"/", "r", "s", "s", "/", ":", "o", "k">>,
      <<"/", "r", "s", "s", ".", "x", "m", "l">> }

\* Two more, for a second root-level parameter and for letter case:  /:id  /Cool
MorePatterns == { <<"/", ":", "i", "d">>, <<"/", "C", "o", "o", "l">> }

\* The patterns of table s.
PatternsOf(s) == {s[i].pattern : i \in 1..Len(s)}

\* Either implementation of sort.Sort may be the build's.
InitAway ==
    /\ routes = <<>>
    /\ panicked = FALSE
    /\ op = "NewRouter"
    /\ req = NoReq
    /\ calls = <<>>
    /\ tried = <<>>
    /\ ctx = Background
    /\ ret = 0
    /\ cleared = NoKey
    /\ legacySort \in BOOLEAN

\* Each pattern is registered at most once, in any order.
NextAway ==
    \E pattern \in AwayPatterns \cup MorePatterns :
        /\ pattern \notin PatternsOf(routes)
        /\ Len(routes) < MaxInsertion
        /\ Handle(GET, pattern, "h1")
        /\ UNCHANGED cleared

SpecAway == InitAway /\ [][NextAway]_vars

\* The pattern has a parameter marker.
HasMarker(pattern) == Contains(pattern, Colon)

\* The pattern is a root-level parameter route: it starts with "/:".
RootLevel(pattern) == HasPrefix(pattern, <<"/", ":">>)

\* C8: after registering any set of routes in any order, every route without a
\* parameter marker precedes every route with one, and every root-level
\* parameter route comes after all routes that are not root-level parameter
\* routes; once exactly the eight patterns of TestAway are registered, the
\* table starts with / and ends with /:slug.
C8_ClassOrder ==
    /\ \A i, j \in 1..Len(routes) :
          /\ (~HasMarker(routes[i].pattern) /\ HasMarker(routes[j].pattern)) => i < j
          /\ (~RootLevel(routes[i].pattern) /\ RootLevel(routes[j].pattern)) => i < j
    /\ PatternsOf(routes) = AwayPatterns =>
          /\ routes[1].pattern = RootRoute
          /\ routes[Len(routes)].pattern = SlugRoute

\* The eight patterns of TestAway are registered, /:slug not last, under the
\* older sort.Sort.
C8_Witness ==
    /\ PatternsOf(routes) = AwayPatterns
    /\ Len(routes) = 8
    /\ req.path # SlugRoute
    /\ legacySort

====
